---------------------------- MODULE Spec2Model ----------------------------
(***************************************************************************)
(* Live-Crypto (src/code.py): a polling loop that fetches a market         *)
(* listing, analyses it and overwrites one worksheet with the listing and  *)
(* the analysis.                                                           *)
(*                                                                         *)
(* Two specifications are given.                                           *)
(*   Spec / FairSpec : main(), one step per collaborator call, with every  *)
(*                     outcome of authenticate, fetch, clear, append_row.  *)
(*   PureSpec        : analyze_data and the row layout of                  *)
(*                     update_google_sheet applied to bounded well-typed   *)
(*                     listings.                                           *)
(*                                                                         *)
(* Representation.  Python's None is the empty tuple and a present value x *)
(* is <<x>> (data, analysis).  Prices, capitalisations and percentages are *)
(* integers; the mean is kept as an exact fraction [num, den].  A cell of  *)
(* the worksheet is a record [isNum, n, s]: a raw number or a string.      *)
(***************************************************************************)
EXTENDS Integers, Sequences, FiniteSets, TLC

VARIABLES
    pc,              \* position of main(): see PCs
    sheet,           \* main's local `sheet`: "None" or "Worksheet"
    exit_status,     \* argument of sys.exit, -1 while the process runs
    data,            \* main's local `data`: <<>> is None, <<l>> is the list l
    analysis,        \* main's local `analysis`: <<>> is None, <<a>> is the dict a
    current_time,    \* update_google_sheet's local `current_time`
    row_idx,         \* number of append_row calls that returned in this update
    worksheet,       \* rows held by the remote worksheet
    now,             \* the wall clock, in seconds
    calls,           \* collaborator calls issued since the tick began (history)
    log,             \* lines printed since the tick began (history)
    before,          \* worksheet contents when the tick began (history)
    fetch_outcome    \* what requests.get did in this tick (history)

vars == <<pc, sheet, exit_status, data, analysis, current_time, row_idx,
          worksheet, now, calls, log, before, fetch_outcome>>

-----------------------------------------------------------------------------
(* Bounds *)

\* longest listing given to analyze_data under PureSpec
MaxLen == 6
\* field values under PureSpec range over 1..MaxVal
MaxVal == 2
\* longest listing a fetch returns under Spec
RunLen == 2
\* the clock stops advancing at MaxTime
MaxTime == 1

\* the slice [:5] of analyze_data
TopN == 5

-----------------------------------------------------------------------------
(* Strings and number formatting *)

Digits == <<"0", "1", "2", "3", "4", "5", "6", "7", "8", "9">>

RECURSIVE IntStr(_)
IntStr(n) == IF n < 10 THEN Digits[n + 1]
             ELSE IntStr(n \div 10) \o Digits[(n % 10) + 1]

Pad2(n) == Digits[(n \div 10) + 1] \o Digits[(n % 10) + 1]

Pad3(n) == Digits[(n \div 100) + 1] \o Pad2(n % 100)

RECURSIVE Commas(_)
Commas(n) == IF n < 1000 THEN IntStr(n)
             ELSE Commas(n \div 1000) \o "," \o Pad3(n % 1000)

\* num/den rounded to the nearest hundredth, ties to even (format spec ".2f")
RoundCents(num, den) ==
    LET q == (num * 100) \div den
        r == (num * 100) % den
    IN  IF 2 * r > den \/ (2 * r = den /\ q % 2 = 1) THEN q + 1 ELSE q

\* f"{num/den:,.2f}" for a non-negative value
FormatMoney(num, den) ==
    LET c == RoundCents(num, den)
    IN  Commas(c \div 100) \o "." \o Pad2(c % 100)

\* datetime.now(IST).strftime('%Y-%m-%d %H:%M:%S'), the clock counted in
\* seconds from an arbitrary minute
Strftime(t) == "2025-01-01 00:" \o Pad2((t \div 60) % 60) \o ":" \o Pad2(t % 60)

Text(str) == [isNum |-> FALSE, n |-> 0, s |-> str]

Num(k) == [isNum |-> TRUE, n |-> k, s |-> ""]

-----------------------------------------------------------------------------
(* Listings *)

\* One element of data['data'].  cap_null: quote.USD.market_cap is JSON null.
MkEntry(i, price, cap, chg, capNull) ==
    [name               |-> "coin" \o IntStr(i),
     symbol             |-> "C" \o IntStr(i),
     price              |-> price,
     market_cap         |-> cap,
     volume_24h         |-> 1000 * i,
     percent_change_24h |-> chg,
     cap_null           |-> capNull]

Min2(a, b) == IF a < b THEN a ELSE b

-----------------------------------------------------------------------------
(* analyze_data *)

\* sorted(..., reverse=True) is stable: an entry goes after every entry
\* already placed whose key is greater or equal
RECURSIVE InsertDesc(_, _)
InsertDesc(s, e) ==
    IF Len(s) = 0 THEN <<e>>
    ELSE IF Head(s).market_cap >= e.market_cap
         THEN <<Head(s)>> \o InsertDesc(Tail(s), e)
         ELSE <<e>> \o s

RECURSIVE SortedByCapDesc(_, _)
SortedByCapDesc(l, k) ==
    IF k = 0 THEN <<>> ELSE InsertDesc(SortedByCapDesc(l, k - 1), l[k])

\* the same entries in ascending order reversed: ties come out last-first
RECURSIVE InsertAsc(_, _)
InsertAsc(s, e) ==
    IF Len(s) = 0 THEN <<e>>
    ELSE IF Head(s).market_cap <= e.market_cap
         THEN <<Head(s)>> \o InsertAsc(Tail(s), e)
         ELSE <<e>> \o s

RECURSIVE SortedByCapAsc(_, _)
SortedByCapAsc(l, k) ==
    IF k = 0 THEN <<>> ELSE InsertAsc(SortedByCapAsc(l, k - 1), l[k])

Reverse(s) == [i \in 1..Len(s) |-> s[Len(s) + 1 - i]]

top_5_reversed(l) ==
    SubSeq(Reverse(SortedByCapAsc(l, Len(l))), 1, Min2(TopN, Len(l)))

top_5(l) == SubSeq(SortedByCapDesc(l, Len(l)), 1, Min2(TopN, Len(l)))

RECURSIVE SumPrice(_, _)
SumPrice(l, k) == IF k = 0 THEN 0 ELSE SumPrice(l, k - 1) + l[k].price

\* the mean taken over the five entries kept in top_5 only
average_price_of_top(l) ==
    [num |-> SumPrice(top_5(l), Len(top_5(l))), den |-> Len(top_5(l))]

average_price(l) == [num |-> SumPrice(l, Len(l)), den |-> Len(l)]

\* max(data, key=...): the first entry no later entry strictly exceeds
RECURSIVE MaxChange(_, _)
MaxChange(l, k) ==
    IF k = 1 THEN l[1]
    ELSE LET m == MaxChange(l, k - 1)
         IN  IF l[k].percent_change_24h > m.percent_change_24h THEN l[k] ELSE m

RECURSIVE MaxChangeLast(_, _)
MaxChangeLast(l, k) ==
    IF k = 1 THEN l[1]
    ELSE LET m == MaxChangeLast(l, k - 1)
         IN  IF l[k].percent_change_24h >= m.percent_change_24h THEN l[k] ELSE m

RECURSIVE MinChange(_, _)
MinChange(l, k) ==
    IF k = 1 THEN l[1]
    ELSE LET m == MinChange(l, k - 1)
         IN  IF l[k].percent_change_24h < m.percent_change_24h THEN l[k] ELSE m

highest_change_last(l) == MaxChangeLast(l, Len(l))

highest_change(l) == MaxChange(l, Len(l))

lowest_change(l) == MinChange(l, Len(l))

\* `not data`: None or the empty list
Falsy(d) == Len(d) = 0 \/ Len(d[1]) = 0

\* sorted() compares the keys pairwise: with two entries or more, a null
\* market_cap raises TypeError out of analyze_data
AnalyzeRaises(d) ==
    /\ ~Falsy(d)
    /\ Len(d[1]) >= 2
    /\ \E i \in 1..Len(d[1]) : d[1][i].cap_null

analyze_data(d) ==
    IF Falsy(d) THEN <<>>
    ELSE << [top_5          |-> top_5(d[1]),
             average_price  |-> average_price(d[1]),
             highest_change |-> highest_change(d[1]),
             lowest_change  |-> lowest_change(d[1])] >>

-----------------------------------------------------------------------------
(* update_google_sheet: the rows, in the order of the append_row calls *)

HeaderRow ==
    << Text("Cryptocurrency Name"), Text("Symbol"), Text("Current Price (USD)"),
       Text("Market Capitalization"), Text("24h Trading Volume"),
       Text("Price Change (24h)") >>

ItemRow(item) ==
    << Text(item.name), Text(item.symbol),
       Text(FormatMoney(item.price, 1)),
       Text(FormatMoney(item.market_cap, 1)),
       Text(FormatMoney(item.volume_24h, 1)),
       Num(item.percent_change_24h) >>

\* ', '.join([crypto['name'] for crypto in analysis['top_5']])
RECURSIVE JoinNames(_, _)
JoinNames(t, k) ==
    IF k = 0 THEN ""
    ELSE IF k = 1 THEN t[1].name
    ELSE JoinNames(t, k - 1) \o ", " \o t[k].name

SummaryRows(a) ==
    << <<>>,
       << Text("Data Analysis") >>,
       << Text("Top 5 Cryptocurrencies by Market Cap"),
          Text(JoinNames(a.top_5, Len(a.top_5))) >>,
       << Text("Average Price of Top 50 Cryptocurrencies (USD)"),
          Text(FormatMoney(a.average_price.num, a.average_price.den)) >>,
       << Text("Highest 24h Price Change"), Text(a.highest_change.name),
          Num(a.highest_change.percent_change_24h) >>,
       << Text("Lowest 24h Price Change"), Text(a.lowest_change.name),
          Num(a.lowest_change.percent_change_24h) >> >>

\* the layout without the spacer row under the timestamp
RenderRowsNoSpacer(l, a, ts) ==
    << << Text("Last Updated"), Text(ts) >>, HeaderRow >>
    \o [i \in 1..Len(l) |-> ItemRow(l[i])]
    \o SummaryRows(a)

\* the argument of every append_row call, in order; ts is current_time
RenderRows(l, a, ts) ==
    << << Text("Last Updated"), Text(ts) >>, <<>>, HeaderRow >>
    \o [i \in 1..Len(l) |-> ItemRow(l[i])]
    \o SummaryRows(a)

\* building row k raises before append_row is called: the format spec
\* ",.2f" applied to None
RowRaises(l, k) == k > 3 /\ k <= 3 + Len(l) /\ l[k - 3].cap_null

\* a collaborator call and whether it returned (ok) or raised
Call(op, row, ok) == [op |-> op, row |-> row, ok |-> ok]

-----------------------------------------------------------------------------
(* main *)

PCs == {"auth", "auth_check", "fetch", "analyze", "update", "clear",
        "append", "sleep", "exited"}

\* the states of the while-loop of main
Running == pc \in {"fetch", "analyze", "update", "clear", "append", "sleep"}

\* what the worksheet may hold before the program first runs
PriorSheets == { <<>>, << << Text("stale") >> >> }

\* the lists a 200 response may carry in data['data']; a null market_cap
\* is carried as 0 with cap_null set
FetchListings ==
    UNION { { [i \in 1..n |-> MkEntry(i, i, IF nul[i] THEN 0 ELSE i, i - 1, nul[i])] :
              nul \in [1..n -> BOOLEAN] } : n \in 0..RunLen }

FetchOutcomes == {"exception", "non200", "no_data_key", "ok"}

\* the shape of the state of main and of the worksheet it writes
TypeOK ==
    /\ pc \in PCs
    /\ sheet \in {"None", "Worksheet"}
    /\ exit_status \in {-1, 1}
    /\ Len(data) \in {0, 1}
    /\ Len(analysis) \in {0, 1}
    /\ row_idx \in 0..(9 + MaxLen + RunLen)
    /\ now \in 0..MaxTime
    /\ fetch_outcome \in FetchOutcomes \cup {"none"}
    /\ \A i \in DOMAIN calls :
          calls[i].op \in {"authorize", "get", "clear", "append_row"}
    /\ \A i \in DOMAIN worksheet : Len(worksheet[i]) \in {0, 1, 2, 3, 6}

Init ==
    /\ pc = "auth"
    /\ sheet = "None"
    /\ exit_status = -1
    /\ data = <<>>
    /\ analysis = <<>>
    /\ current_time = ""
    /\ row_idx = 0
    /\ worksheet \in PriorSheets
    /\ now = 0
    /\ calls = <<>>
    /\ log = <<>>
    /\ before = worksheet
    /\ fetch_outcome = "none"

\* authenticate_google_sheet: the handle, or None after any exception
Authenticate ==
    /\ pc = "auth"
    /\ \/ /\ sheet' = "Worksheet"
          /\ calls' = Append(calls, Call("authorize", <<>>, TRUE))
          /\ log' = log
       \/ /\ sheet' = "None"
          /\ calls' = Append(calls, Call("authorize", <<>>, FALSE))
          /\ log' = Append(log, "Error authenticating Google Sheets")
    /\ pc' = "auth_check"
    /\ UNCHANGED <<exit_status, data, analysis, current_time, row_idx,
                   worksheet, now, before, fetch_outcome>>

\* main entering the loop whatever authenticate returned
CheckSheetIgnored ==
    /\ pc = "auth_check"
    /\ pc' = "fetch"
    /\ UNCHANGED <<sheet, exit_status, data, analysis, current_time, row_idx,
                   worksheet, now, calls, log, before, fetch_outcome>>

\* main, `if not sheet: sys.exit(1)`
CheckSheet ==
    /\ pc = "auth_check"
    /\ IF sheet = "None"
       THEN /\ log' = Append(log, "Failed to authenticate Google Sheet. Exiting.")
            /\ exit_status' = 1
            /\ pc' = "exited"
       ELSE /\ pc' = "fetch"
            /\ UNCHANGED <<log, exit_status>>
    /\ UNCHANGED <<sheet, data, analysis, current_time, row_idx, worksheet,
                   now, calls, before, fetch_outcome>>

\* fetch_live_data without the status_code test
FetchResultUnchecked(o, l) == IF o \in {"ok", "non200"} THEN <<l>> ELSE <<>>

\* what fetch_live_data returns: data['data'] of a 200 response, else None
FetchResult(o, l) == IF o = "ok" THEN <<l>> ELSE <<>>

\* `if data is not None:` in place of `if data:`
AfterFetchNotNone(d) == IF Len(d) = 0 THEN "sleep" ELSE "analyze"

\* where main goes with the value fetch_live_data returned: `if data:`
AfterFetch(d) == IF Falsy(d) THEN "sleep" ELSE "analyze"

\* fetch_live_data followed by main's `if data:`; l is the body's 'data'
FetchLiveData ==
    /\ pc = "fetch"
    /\ \E o \in FetchOutcomes, l \in FetchListings :
          /\ fetch_outcome' = o
          /\ data' = FetchResult(o, l)
          /\ calls' = Append(calls, Call("get", <<>>, o \notin {"exception"}))
          /\ log' = IF o = "ok" THEN log ELSE Append(log, "Error fetching data")
    /\ pc' = AfterFetch(data')
    /\ UNCHANGED <<sheet, exit_status, analysis, current_time, row_idx,
                   worksheet, now, before>>

\* main without its `except Exception` clause
ExceptTargetUncaught == "exited"

\* main's `except Exception`: print, sleep, next iteration
ExceptTarget == "sleep"

\* main, `analysis = analyze_data(data)`; an exception goes to main's handler
AnalyzeData ==
    /\ pc = "analyze"
    /\ IF AnalyzeRaises(data)
       THEN /\ log' = Append(log, "An error occurred")
            /\ pc' = ExceptTarget
            /\ UNCHANGED analysis
       ELSE /\ analysis' = analyze_data(data)
            /\ pc' = "update"
            /\ UNCHANGED log
    /\ UNCHANGED <<sheet, exit_status, data, current_time, row_idx, worksheet,
                   now, calls, before, fetch_outcome>>

\* update_google_sheet, `if not sheet or not data or not analysis: return`
UpdateGuard ==
    /\ pc = "update"
    /\ IF sheet = "None" \/ Falsy(data) \/ Len(analysis) = 0
       THEN /\ log' = Append(log, "Insufficient data to update sheet")
            /\ pc' = "sleep"
       ELSE /\ pc' = "clear"
            /\ UNCHANGED log
    /\ UNCHANGED <<sheet, exit_status, data, analysis, current_time, row_idx,
                   worksheet, now, calls, before, fetch_outcome>>

\* sheet.clear() guarded by a handler of its own, the appends following
ClearFailureContinues == "append"

\* update_google_sheet's `except Exception`, reached from sheet.clear()
ClearFailureTarget == "sleep"

\* a clear that leaves the rows in place
ClearedKeeps(w) == w

\* the worksheet after sheet.clear() took effect
Cleared(w) == <<>>

\* sheet.clear() and the timestamp taken after it.  A call that raises may
\* or may not have reached the worksheet.
SheetClear ==
    /\ pc = "clear"
    /\ \/ /\ worksheet' = Cleared(worksheet)
          /\ calls' = Append(calls, Call("clear", <<>>, TRUE))
          /\ current_time' = Strftime(now)
          /\ pc' = "append"
          /\ UNCHANGED log
       \/ /\ worksheet' \in {worksheet, Cleared(worksheet)}
          /\ calls' = Append(calls, Call("clear", <<>>, FALSE))
          /\ UNCHANGED current_time
          /\ log' = Append(log, "Error updating Google Sheet")
          /\ pc' = ClearFailureTarget
    /\ row_idx' = 0
    /\ UNCHANGED <<sheet, exit_status, data, analysis, now, before,
                   fetch_outcome>>

\* one append_row call of update_google_sheet, in the order of the source
AppendRow ==
    /\ pc = "append"
    /\ LET k    == row_idx + 1
           rows == RenderRows(data[1], analysis[1], current_time)
       IN  IF RowRaises(data[1], k)
           THEN /\ log' = Append(log, "Error updating Google Sheet")
                /\ pc' = "sleep"
                /\ UNCHANGED <<worksheet, calls, row_idx>>
           ELSE \/ /\ worksheet' = Append(worksheet, rows[k])
                   /\ calls' = Append(calls, Call("append_row", rows[k], TRUE))
                   /\ row_idx' = k
                   /\ IF k = Len(rows)
                      THEN /\ log' = Append(log, "Google Sheet updated")
                           /\ pc' = "sleep"
                      ELSE /\ pc' = "append"
                           /\ UNCHANGED log
                \/ /\ worksheet' \in {worksheet, Append(worksheet, rows[k])}
                   /\ calls' = Append(calls, Call("append_row", rows[k], FALSE))
                   /\ row_idx' = row_idx
                   /\ log' = Append(log, "Error updating Google Sheet")
                   /\ pc' = "sleep"
    /\ UNCHANGED <<sheet, exit_status, data, analysis, current_time, now,
                   before, fetch_outcome>>

\* time.sleep(UPDATE_INTERVAL), then the next iteration of `while True`.
\* The locals are overwritten before they are read again; the history
\* variables start the next tick.
Sleep ==
    /\ pc = "sleep"
    /\ pc' = "fetch"
    /\ now' \in {now, IF now < MaxTime THEN now + 1 ELSE now}
    /\ data' = <<>>
    /\ analysis' = <<>>
    /\ current_time' = ""
    /\ row_idx' = 0
    /\ calls' = <<>>
    /\ log' = <<>>
    /\ before' = worksheet
    /\ fetch_outcome' = "none"
    /\ UNCHANGED <<sheet, exit_status, worksheet>>

Next ==
    \/ Authenticate
    \/ CheckSheet
    \/ FetchLiveData
    \/ AnalyzeData
    \/ UpdateGuard
    \/ SheetClear
    \/ AppendRow
    \/ Sleep

Spec == Init /\ [][Next]_vars

\* main is one sequential thread: while a step is possible, one is taken
FairSpec == Spec /\ WF_vars(Next)

-----------------------------------------------------------------------------
(* analyze_data and update_google_sheet applied to bounded listings *)

Kinds == {"price", "cap", "chg"}

\* entry i of a listing whose field `kind` takes the value v; the other
\* two fields are the same for every entry (flat) or follow the position
PureEntry(kind, flat, i, v) ==
    LET other == IF flat THEN 1 ELSE i
    IN  MkEntry(i,
                IF kind = "price" THEN v ELSE other,
                IF kind = "cap" THEN v ELSE other,
                IF kind = "chg" THEN v - 2 ELSE other,
                FALSE)

\* caps [10, 30, 20], prices [1, 2, 3]
Scenario ==
    << MkEntry(1, 1, 10, 0, FALSE), MkEntry(2, 2, 30, 0, FALSE),
       MkEntry(3, 3, 20, 0, FALSE) >>

PureListings ==
    {Scenario} \cup
    UNION { { [i \in 1..n |-> PureEntry(kind, flat, i, vals[i])] :
              vals \in [1..n -> 1..MaxVal], kind \in Kinds, flat \in BOOLEAN } :
            n \in 0..MaxLen }

PureInit ==
    /\ pc = "analyze"
    /\ sheet = "Worksheet"
    /\ exit_status = -1
    /\ \E l \in PureListings : data = <<l>>
    /\ analysis = <<>>
    /\ current_time = ""
    /\ row_idx = 0
    /\ worksheet = << << Text("stale") >> >>
    /\ now = 0
    /\ calls = <<>>
    /\ log = <<>>
    /\ before = worksheet
    /\ fetch_outcome = "ok"

\* update_google_sheet from sheet.clear() to its last line, every
\* collaborator call returning
UpdateSheet ==
    /\ pc = "clear"
    /\ LET ts   == Strftime(now)
           rows == RenderRows(data[1], analysis[1], ts)
       IN  /\ current_time' = ts
           /\ worksheet' = Cleared(worksheet) \o rows
           /\ calls' = calls \o << Call("clear", <<>>, TRUE) >>
                             \o [k \in 1..Len(rows) |-> Call("append_row", rows[k], TRUE)]
           /\ row_idx' = Len(rows)
    /\ log' = Append(log, "Google Sheet updated")
    /\ pc' = "sleep"
    /\ UNCHANGED <<sheet, exit_status, data, analysis, now, before,
                   fetch_outcome>>

PureNext == AnalyzeData \/ UpdateGuard \/ UpdateSheet

PureSpec == PureInit /\ [][PureNext]_vars

-----------------------------------------------------------------------------
(* Properties *)

Range(q) == { q[i] : i \in DOMAIN q }

Failed == {"exception", "non200", "no_data_key"}

\* update_google_sheet reached its last line in this tick
Rendered == pc = "sleep" /\ "Google Sheet updated" \in Range(log)

IsTickCall(c) == c.op # "authorize"

\* the calls of the running tick: the first tick follows authenticate
TickCalls == SelectSeq(calls, IsTickCall)

NoSheetCall == \A i \in DOMAIN calls : calls[i].op \notin {"clear", "append_row"}

\* C1: once main is in its loop no outcome of a tick ends the process: a
\* loop state is followed only by loop states with no exit status set,
\* every fetch is followed by a sleep and every sleep by the next fetch.
C1_LoopNeverTerminates ==
    /\ [][Running => (Running' /\ exit_status' = -1)]_vars
    /\ (pc = "fetch") ~> (pc = "sleep")
    /\ (pc = "sleep") ~> (pc = "fetch")

\* a tick in which analyze_data raised has reached the sleep
C1_Witness ==
    /\ pc = "sleep"
    /\ "An error occurred" \in Range(log)
    /\ exit_status = -1

\* C2: the loop is entered only with a handle; a failed authentication
\* ends the process with status 1 after exactly one authenticate call and
\* no fetch, clear or append_row; nothing is called before authenticate.
C2_AuthGate ==
    /\ Running => sheet = "Worksheet" /\ exit_status = -1
    /\ pc = "auth" => calls = <<>> /\ sheet = "None"
    /\ pc = "auth_check" => Len(calls) = 1
    /\ pc = "exited" =>
          /\ exit_status = 1
          /\ sheet = "None"
          /\ calls = << Call("authorize", <<>>, FALSE) >>
          /\ worksheet = before
    /\ exit_status \in {-1, 1}

C2_Witness == pc = "exited" /\ exit_status = 1 /\ Len(worksheet) = 1

\* C3: in a tick whose fetch failed nothing is analysed, no clear and no
\* append_row is issued, and the worksheet is as the tick found it.
C3_FailedFetchLeavesSheet ==
    fetch_outcome \in Failed =>
        /\ pc = "sleep"
        /\ data = <<>>
        /\ analysis = <<>>
        /\ NoSheetCall
        /\ worksheet = before

\* a failed fetch after a tick that had filled the worksheet
C3_Witness ==
    /\ fetch_outcome = "non200"
    /\ pc = "sleep"
    /\ Len(worksheet) > 1

\* the fixed order of the rows for listing l, stated row by row
Layout(w, l) ==
    LET n == Len(l)
    IN  /\ Len(w) = n + 9
        /\ Len(w[1]) = 2 /\ w[1][1].s = "Last Updated"
        /\ Len(w[2]) = 0
        /\ Len(w[3]) = 6 /\ w[3][1].s = "Cryptocurrency Name"
        /\ \A i \in 1..n : Len(w[3 + i]) = 6 /\ w[3 + i][1].s = l[i].name
        /\ Len(w[n + 4]) = 0
        /\ Len(w[n + 5]) = 1 /\ w[n + 5][1].s = "Data Analysis"
        /\ Len(w[n + 6]) = 2
        /\ w[n + 6][1].s = "Top 5 Cryptocurrencies by Market Cap"
        /\ Len(w[n + 7]) = 2
        /\ w[n + 7][1].s = "Average Price of Top 50 Cryptocurrencies (USD)"
        /\ Len(w[n + 8]) = 3 /\ w[n + 8][1].s = "Highest 24h Price Change"
        /\ Len(w[n + 9]) = 3 /\ w[n + 9][1].s = "Lowest 24h Price Change"

\* C4: a tick that renders without error issues the fetch, one clear, and
\* then exactly one append_row per row in the fixed order; the worksheet
\* then holds exactly the rows appended in this tick.
C4_ClearThenRowsInOrder ==
    Rendered =>
        /\ Layout(worksheet, data[1])
        /\ Len(TickCalls) = Len(worksheet) + 2
        /\ TickCalls[1].op = "get"
        /\ TickCalls[2] = Call("clear", <<>>, TRUE)
        /\ \A k \in 1..Len(worksheet) :
              TickCalls[k + 2] = Call("append_row", worksheet[k], TRUE)

\* a full render over the rows an earlier tick had left
C4_Witness ==
    /\ Rendered
    /\ Len(data[1]) = RunLen
    /\ Len(before) > 1

\* C5 as stated: 7 + len(listing) rows, header third
C5_Original ==
    Rendered => /\ Len(worksheet) = 7 + Len(data[1])
                /\ worksheet[3] = HeaderRow

\* C5 amended: for every non-empty listing the rows number 9 + len(listing)
\* and the header row is the third row whatever the length.
C5_RowCount ==
    /\ Rendered => /\ Len(worksheet) = 9 + Len(data[1])
                   /\ worksheet[3] = HeaderRow
                   /\ \A k \in 1..Len(worksheet) : k # 3 => worksheet[k] # HeaderRow
    /\ (pc = "sleep" /\ Len(data[1]) > 0) => Rendered

C5_Witness == Rendered /\ Len(data[1]) > TopN

Pos(l, e) == CHOOSE i \in 1..Len(l) : l[i] = e

Analyzed == pc # "analyze" /\ Len(data[1]) > 0

\* C7: for every non-empty listing analyze_data returns a summary whose
\* top_5 has min(5, len) entries of the listing, in descending market_cap,
\* equal caps in input order, and no entry left out has a greater cap than,
\* or an equal cap and an earlier place than, an entry kept.
C7_Top5 ==
    Analyzed =>
        /\ Len(analysis) = 1
        /\ LET l == data[1]
               t == analysis[1].top_5
           IN  /\ Len(t) = Min2(5, Len(l))
               /\ \A k \in 1..Len(t) : t[k] \in Range(l)
               /\ \A k, m \in 1..Len(t) :
                     k < m => /\ t[k].market_cap >= t[m].market_cap
                              /\ t[k].market_cap = t[m].market_cap
                                    => Pos(l, t[k]) < Pos(l, t[m])
               /\ \A i \in 1..Len(l) : \A k \in 1..Len(t) :
                     l[i] \notin Range(t) =>
                        /\ l[i].market_cap <= t[k].market_cap
                        /\ l[i].market_cap = t[k].market_cap => Pos(l, t[k]) < i

\* more than five entries, two of them with equal caps, one with another
C7_Witness ==
    /\ Analyzed
    /\ Len(data[1]) > 5
    /\ data[1][1].market_cap = data[1][Len(data[1])].market_cap
    /\ data[1][1].market_cap < data[1][2].market_cap
    /\ Len(analysis[1].top_5) = 5

\* C8: highest_change (lowest_change) is an entry of the listing that no
\* entry exceeds (undercuts) in percent_change_24h, and the first such.
C8_Extremes ==
    Analyzed =>
        LET l == data[1]
            h == analysis[1].highest_change
            w == analysis[1].lowest_change
        IN  /\ \E i \in 1..Len(l) :
                  /\ l[i] = h
                  /\ \A j \in 1..Len(l) : l[j].percent_change_24h <= h.percent_change_24h
                  /\ \A j \in 1..(i - 1) : l[j].percent_change_24h < h.percent_change_24h
            /\ \E i \in 1..Len(l) :
                  /\ l[i] = w
                  /\ \A j \in 1..Len(l) : l[j].percent_change_24h >= w.percent_change_24h
                  /\ \A j \in 1..(i - 1) : l[j].percent_change_24h > w.percent_change_24h

\* two entries tie for the highest change, neither of them the first entry
C8_Witness ==
    /\ Analyzed
    /\ \E i, j \in 2..Len(data[1]) :
          /\ i < j
          /\ data[1][i].percent_change_24h = data[1][j].percent_change_24h
          /\ data[1][1].percent_change_24h < data[1][i].percent_change_24h
          /\ analysis[1].highest_change = data[1][i]

\* the prices of a listing added from its last entry to its first
RECURSIVE TotalPrice(_)
TotalPrice(l) == IF Len(l) = 0 THEN 0
                 ELSE l[Len(l)].price + TotalPrice(SubSeq(l, 1, Len(l) - 1))

Names(t) == [k \in 1..Len(t) |-> t[k].name]

\* C9: average_price is the sum of price over all entries divided by their
\* number; for caps [10,30,20] and prices [1,2,3] top_5 is
\* [cap30, cap20, cap10] and average_price is 2.
C9_AveragePrice ==
    Analyzed =>
        LET l == data[1]
            a == analysis[1].average_price
        IN  /\ a.den > 0
            /\ a.num * Len(l) = TotalPrice(l) * a.den
            /\ l = Scenario =>
                  /\ Names(analysis[1].top_5) = <<"coin2", "coin3", "coin1">>
                  /\ a.num = 2 * a.den

C9_Witness == Analyzed /\ data[1] = Scenario

HasFailedCall == \E i \in DOMAIN calls : ~calls[i].ok /\ calls[i].op = "append_row"

\* C10: at every moment the worksheet holds either what the tick found or
\* a prefix of the rows of this tick's listing; without a clear in the tick
\* it holds what the tick found; after a clear that raised, no append_row
\* is issued in the tick.
C10_OneListingAtATime ==
    /\ \/ worksheet = before
       \/ /\ Len(analysis) = 1
          /\ LET rows == RenderRows(data[1], analysis[1], Strftime(now))
             IN  \E k \in 0..Len(rows) : worksheet = SubSeq(rows, 1, k)
    /\ (\A i \in DOMAIN calls : calls[i].op # "clear") => worksheet = before
    /\ \A i, j \in DOMAIN calls :
          (i < j /\ calls[i].op = "clear" /\ ~calls[i].ok)
             => calls[j].op # "append_row"

\* an append_row raised partway, over rows left by an earlier tick
C10_Witness ==
    /\ pc = "sleep"
    /\ HasFailedCall
    /\ Len(before) > 1
    /\ Len(worksheet) > 3
    /\ Len(worksheet) < Len(before)

=============================================================================
